---- MODULE Spec2Model ----
(***************************************************************************)
(* Model of the upload admission gateway of vite-supabase-bucket:          *)
(* api/upload.ts (the serverless handler with its in-memory rate limiter,  *)
(* PDF magic-number check, file-name generator and the store-then-sign     *)
(* protocol against the storage bucket).                                   *)
(*                                                                         *)
(* Strings of the program are sequences of one-character strings, so that  *)
(* sanitising, splitting, base64 decoding and concatenation are computed   *)
(* character by character as the code computes them.                       *)
(***************************************************************************)
EXTENDS Integers, Sequences, FiniteSets, TLC

(***************************************************************************)
(* Generic helpers on sequences.                                           *)
(***************************************************************************)
Range(s) == {s[i] : i \in DOMAIN s}

IndexIn(seq, c) == CHOOSE i \in DOMAIN seq : seq[i] = c

RECURSIVE Filter(_, _)
Filter(s, keep) ==
    IF s = <<>> THEN <<>>
    ELSE IF Head(s) \in keep THEN <<Head(s)>> \o Filter(Tail(s), keep)
    ELSE Filter(Tail(s), keep)

Take(s, n) == SubSeq(s, 1, IF n < Len(s) THEN n ELSE Len(s))

(***************************************************************************)
(* Character classes.                                                      *)
(***************************************************************************)
UpperChars == <<"A","B","C","D","E","F","G","H","I","J","K","L","M",
                "N","O","P","Q","R","S","T","U","V","W","X","Y","Z">>

LowerChars == <<"a","b","c","d","e","f","g","h","i","j","k","l","m",
                "n","o","p","q","r","s","t","u","v","w","x","y","z">>

DigitChars == <<"0","1","2","3","4","5","6","7","8","9">>

SpaceChars == {" ", "\t", "\n"}

(***************************************************************************)
(* Buffer.from(fileData, 'base64'): characters outside the alphabet are    *)
(* skipped, decoding stops at the first '=', '-' and '_' are accepted for  *)
(* '+' and '/', every 4 sextets give 3 bytes and a tail of 2 or 3 sextets  *)
(* gives 1 or 2 bytes.                                                     *)
(***************************************************************************)
Base64Chars == UpperChars \o LowerChars \o DigitChars \o <<"+", "/">>

Sextet(c) ==
    IF c = "-" THEN IndexIn(Base64Chars, "+") - 1
    ELSE IF c = "_" THEN IndexIn(Base64Chars, "/") - 1
    ELSE IndexIn(Base64Chars, c) - 1

RECURSIVE UpToPad(_)
UpToPad(s) ==
    IF s = <<>> \/ Head(s) = "=" THEN <<>>
    ELSE <<Head(s)>> \o UpToPad(Tail(s))

RECURSIVE DecodeSextets(_)
DecodeSextets(q) ==
    IF Len(q) < 2 THEN <<>>
    ELSE IF Len(q) = 2 THEN
        << (q[1] * 4) + (q[2] \div 16) >>
    ELSE IF Len(q) = 3 THEN
        << (q[1] * 4) + (q[2] \div 16),
           ((q[2] % 16) * 16) + (q[3] \div 4) >>
    ELSE
        << (q[1] * 4) + (q[2] \div 16),
           ((q[2] % 16) * 16) + (q[3] \div 4),
           ((q[3] % 4) * 64) + q[4] >>
        \o DecodeSextets(SubSeq(q, 5, Len(q)))

BufferFromBase64(fileData) ==
    LET chars == Filter(UpToPad(fileData), Range(Base64Chars) \cup {"-", "_"})
    IN  DecodeSextets([i \in DOMAIN chars |-> Sextet(chars[i])])

(***************************************************************************)
(* validatePDF: the first four bytes, read as text, equal '%PDF'.          *)
(***************************************************************************)
PDF_MAGIC == <<37, 80, 68, 70>>

\* faulty variants: only the first three bytes are compared; the letters
\* are compared without regard to case
validatePDFPrefix(buffer) == Take(buffer, 3) = Take(PDF_MAGIC, 3)

UpperByte(b) == IF b >= 97 /\ b <= 122 THEN b - 32 ELSE b

validatePDFAnyCase(buffer) ==
    LET head == Take(buffer, Len(PDF_MAGIC))
    IN  [i \in DOMAIN head |-> UpperByte(head[i])] = PDF_MAGIC

validatePDF(buffer) == Take(buffer, Len(PDF_MAGIC)) = PDF_MAGIC

(***************************************************************************)
(* sanitizeFileName.                                                       *)
(***************************************************************************)
SafeChars == Range(UpperChars) \cup Range(LowerChars) \cup Range(DigitChars)
             \cup {".", "-", "_"} \cup SpaceChars

RECURSIVE CollapseSpaces(_)
CollapseSpaces(s) ==
    IF s = <<>> THEN <<>>
    ELSE IF Head(s) \in SpaceChars THEN
        IF Len(s) > 1 /\ s[2] \in SpaceChars THEN CollapseSpaces(Tail(s))
        ELSE <<"-">> \o CollapseSpaces(Tail(s))
    ELSE <<Head(s)>> \o CollapseSpaces(Tail(s))

ToLowerChar(c) ==
    IF c \in Range(UpperChars) THEN LowerChars[IndexIn(UpperChars, c)] ELSE c

toLowerCase(s) == [i \in DOMAIN s |-> ToLowerChar(s[i])]

sanitizeFileName(filename) ==
    toLowerCase(CollapseSpaces(Filter(filename, SafeChars)))

(***************************************************************************)
(* generateFileName: `${timestamp}-${nameWithoutExtension}.${extension}`.  *)
(***************************************************************************)
RECURSIVE DecimalDigits(_)
DecimalDigits(n) ==
    IF n < 10 THEN <<DigitChars[n + 1]>>
    ELSE DecimalDigits(n \div 10) \o <<DigitChars[(n % 10) + 1]>>

DotPositions(s) == {i \in DOMAIN s : s[i] = "."}

LastDot(s) == CHOOSE i \in DotPositions(s) : \A j \in DotPositions(s) : j <= i

\* sanitized.split('.').pop()
LastSegment(s) ==
    IF DotPositions(s) = {} THEN s ELSE SubSeq(s, LastDot(s) + 1, Len(s))

\* sanitized.replace(/\.[^/.]+$/, '')
StripExtension(s) ==
    IF DotPositions(s) = {} THEN s
    ELSE LET tail == SubSeq(s, LastDot(s) + 1, Len(s))
         IN  IF tail # <<>> /\ "/" \notin Range(tail)
             THEN SubSeq(s, 1, LastDot(s) - 1)
             ELSE s

\* faulty variant: the timestamp is taken in seconds
generateFileNameSeconds(originalName, timestamp) ==
    LET sanitized == sanitizeFileName(originalName)
        extension == LastSegment(sanitized)
        nameWithoutExtension == StripExtension(sanitized)
    IN  DecimalDigits(timestamp \div 1000) \o <<"-">> \o nameWithoutExtension
        \o <<".">> \o extension

generateFileName(originalName, timestamp) ==
    LET sanitized == sanitizeFileName(originalName)
        extension == LastSegment(sanitized)
        nameWithoutExtension == StripExtension(sanitized)
    IN  DecimalDigits(timestamp) \o <<"-">> \o nameWithoutExtension
        \o <<".">> \o extension

(***************************************************************************)
(* Program constants.                                                      *)
(***************************************************************************)
WINDOW_MS == 60 * 60 * 1000

MAX_UPLOADS == 5

maxSize == 5 * 1024 * 1024

(***************************************************************************)
(* Bound of the model.  The clock (epoch milliseconds) starts at 0 and     *)
(* takes, besides 0, the instant one window length later (the resetTime of *)
(* a window opened at 0) and the MaxOffset milliseconds that follow it.    *)
(***************************************************************************)
MaxOffset == 1

Instants == {0} \cup {WINDOW_MS + o : o \in 0..MaxOffset}

(***************************************************************************)
(* Requests.  A header that is absent and a header that is the empty       *)
(* string are both falsy and are both the empty value here.                *)
(*   xff : the comma-separated entries of x-forwarded-for (<<>> if absent) *)
(*   xri : x-real-ip ("" if absent)                                        *)
(*   contentType : the content-type header ("" if absent)                  *)
(*   body : isObject (typeof body === 'object', not null), fileData and    *)
(*          fileName (<<>> if missing or empty), fileSize (the set of the  *)
(*          declared number, {} if missing)                                *)
(***************************************************************************)
PdfA == <<"J","V","B","E","R","i","0","x">>          \* %PDF-1

PdfB == <<"J","V","B","E","R","i","0","y">>          \* %PDF-2

NotPdf == <<"T","k","9","U","U","E","R","G">>        \* NOTPDF

ShortPdf == <<"J","V","B","E">>                      \* %PD

LowerPdf == <<"J","X","B","k","Z","i","0","x">>      \* %pdf-1

NameA == <<"a",".","p","d","f">>

NameB == <<"A","!",".","p","d","f">>

Body(fileData, fileName, fileSize) ==
    [isObject |-> TRUE, fileData |-> fileData, fileName |-> fileName,
     fileSize |-> fileSize]

NoBody == [isObject |-> FALSE, fileData |-> <<>>, fileName |-> <<>>,
           fileSize |-> {}]

Request(method, xff, xri, contentType, body) ==
    [method |-> method, xff |-> xff, xri |-> xri,
     contentType |-> contentType, body |-> body]

NoRequest == Request("", <<>>, "", "", NoBody)

Multipart == "multipart/form-data; boundary=x"

GoodRequest == Request("POST", <<"ipA", "ipB">>, "", Multipart,
                       Body(PdfA, NameA, {1024}))

(***************************************************************************)
(* State.                                                                  *)
(***************************************************************************)
VARIABLES
    now,            \* Date.now(), epoch milliseconds
    uploadCounts,   \* the Map ip -> {count, resetTime}
    bucket,         \* the storage bucket: object key -> stored bytes
    slots,          \* the invocations of handler in progress, one per slot
    out,            \* the response sent by the last step, if any, with the
                    \* request it answers and the storage calls made for it
    audit,          \* per ip, the tally of the rate-limit checks of the current
                    \* window (observation only, never read by an action)
    named,          \* a declared file name and the storage keys generated for
                    \* it so far, each with the instant of its generation
    widget          \* the FileUpload component: its React state and the calls
                    \* of uploadFile in progress

vars == <<now, uploadCounts, bucket, slots, out, audit, named, widget>>

\* the variables the handler of api/upload.ts never touches
clientVars == <<named, widget>>

Slots == DOMAIN slots

NoResponse == [status |-> 0, error |-> "", url |-> <<>>, downloadUrl |-> <<>>]

ErrorResponse(status, error) ==
    [status |-> status, error |-> error, url |-> <<>>, downloadUrl |-> <<>>]

IdleSlot == [pc |-> "idle", req |-> NoRequest, key |-> <<>>, calls |-> <<>>,
             put |-> "none"]

NoOut == [req |-> NoRequest, key |-> <<>>, calls |-> <<>>, put |-> "none",
          view |-> "none", dl |-> "none", resp |-> NoResponse]

IPs == {"ipA", "unknown"}

NoAudit == [open |-> FALSE, resetAt |-> 0, admits |-> 0, rejectedAt |-> {},
            edgeAdmits |-> 0, lost |-> 0]

\* no file name under consideration, no key generated
Unnamed == [originalName |-> <<>>, keys |-> <<>>]

(***************************************************************************)
(* The FileUpload component.  A File is its type, size, name and content   *)
(* (as base64).  A call of uploadFile is at the await of fileToBase64      *)
(* ("reading") or at the await of fetch ("fetching"); received tells that  *)
(* its request reached the handler and response is the response that came  *)
(* back for it.  The state of the component is uploading, uploadedFile     *)
(* (its url and downloadUrl, <<>> for null), error ("" for null) and       *)
(* dragActive; settled is the file and the response of the call of         *)
(* uploadFile that ended last (observation only).                          *)
(***************************************************************************)
File(type, size, name, base64) ==
    [type |-> type, size |-> size, name |-> name, base64 |-> base64]

NoFile == File("", 0, <<>>, <<>>)

NoCall == [pc |-> "none", file |-> NoFile, received |-> FALSE,
           response |-> NoResponse]

NoUploadedFile == [url |-> <<>>, downloadUrl |-> <<>>]

NoSettled == [file |-> NoFile, response |-> NoResponse]

\* the calls of uploadFile that can be in progress at a time
MaxCalls == 2

Calls == 1..MaxCalls

MountedWidget ==
    [uploading |-> FALSE, uploadedFile |-> NoUploadedFile, error |-> "",
     dragActive |-> FALSE, calls |-> [c \in Calls |-> NoCall],
     settled |-> NoSettled]

InitWith(workers) ==
    /\ now = 0
    /\ uploadCounts = <<>>
    /\ bucket = <<>>
    /\ slots = [s \in workers |-> IdleSlot]
    /\ out = NoOut
    /\ audit = [ip \in IPs |-> NoAudit]
    /\ named = Unnamed
    /\ widget = MountedWidget

(***************************************************************************)
(* getClientIP.                                                            *)
(***************************************************************************)
getClientIP(req) ==
    IF req.xff # <<>> /\ req.xff[1] # "" THEN req.xff[1]
    ELSE IF req.xri # "" THEN req.xri
    ELSE "unknown"

(***************************************************************************)
(* Faulty variants of isRateLimited, used to show that the properties      *)
(* below depend on it: the limit compared with > instead of >=, a window   *)
(* that never expires, and a count that is never incremented.              *)
(***************************************************************************)
isRateLimitedOffByOne(counts, ip, t) ==
    IF ip \notin DOMAIN counts \/ t > counts[ip].resetTime THEN
        [limited |-> FALSE,
         counts |-> (ip :> [count |-> 1, resetTime |-> t + WINDOW_MS]) @@ counts]
    ELSE IF counts[ip].count > MAX_UPLOADS THEN
        [limited |-> TRUE, counts |-> counts]
    ELSE
        [limited |-> FALSE,
         counts |-> [counts EXCEPT ![ip].count = @ + 1]]

isRateLimitedNoExpiry(counts, ip, t) ==
    IF ip \notin DOMAIN counts THEN
        [limited |-> FALSE,
         counts |-> (ip :> [count |-> 1, resetTime |-> t + WINDOW_MS]) @@ counts]
    ELSE IF counts[ip].count >= MAX_UPLOADS THEN
        [limited |-> TRUE, counts |-> counts]
    ELSE
        [limited |-> FALSE,
         counts |-> [counts EXCEPT ![ip].count = @ + 1]]

isRateLimitedNoIncrement(counts, ip, t) ==
    IF ip \notin DOMAIN counts \/ t > counts[ip].resetTime THEN
        [limited |-> FALSE,
         counts |-> (ip :> [count |-> 1, resetTime |-> t + WINDOW_MS]) @@ counts]
    ELSE IF counts[ip].count >= MAX_UPLOADS THEN
        [limited |-> TRUE, counts |-> counts]
    ELSE
        [limited |-> FALSE, counts |-> counts]

\* faulty variants: a rejection opens the hour anew; a new window starts
\* with count 0
isRateLimitedExtends(counts, ip, t) ==
    IF ip \notin DOMAIN counts \/ t > counts[ip].resetTime THEN
        [limited |-> FALSE,
         counts |-> (ip :> [count |-> 1, resetTime |-> t + WINDOW_MS]) @@ counts]
    ELSE IF counts[ip].count >= MAX_UPLOADS THEN
        [limited |-> TRUE,
         counts |-> [counts EXCEPT ![ip].resetTime = t + WINDOW_MS]]
    ELSE
        [limited |-> FALSE,
         counts |-> [counts EXCEPT ![ip].count = @ + 1]]

isRateLimitedFromZero(counts, ip, t) ==
    IF ip \notin DOMAIN counts \/ t > counts[ip].resetTime THEN
        [limited |-> FALSE,
         counts |-> (ip :> [count |-> 0, resetTime |-> t + WINDOW_MS]) @@ counts]
    ELSE IF counts[ip].count >= MAX_UPLOADS THEN
        [limited |-> TRUE, counts |-> counts]
    ELSE
        [limited |-> FALSE,
         counts |-> [counts EXCEPT ![ip].count = @ + 1]]

(***************************************************************************)
(* isRateLimited: the verdict and the map after the call.                  *)
(***************************************************************************)
isRateLimited(counts, ip, t) ==
    IF ip \notin DOMAIN counts \/ t > counts[ip].resetTime THEN
        [limited |-> FALSE,
         counts |-> (ip :> [count |-> 1, resetTime |-> t + WINDOW_MS]) @@ counts]
    ELSE IF counts[ip].count >= MAX_UPLOADS THEN
        [limited |-> TRUE, counts |-> counts]
    ELSE
        [limited |-> FALSE,
         counts |-> [counts EXCEPT ![ip].count = @ + 1]]

(***************************************************************************)
(* The gates of the handler between the rate limiter and the upload: the   *)
(* rejection they produce, or NoResponse when the request passes them all. *)
(***************************************************************************)
IncludesMultipart(contentType) ==
    contentType \in {"multipart/form-data", "multipart/form-data; boundary=x"}

\* Buffer.from(fileData, 'base64') of the request, decoded once per fileData
FileDatas == {<<>>, PdfA, PdfB, NotPdf, ShortPdf, LowerPdf}

Decoded == [fileData \in FileDatas |-> BufferFromBase64(fileData)]

FileBuffer(req) == Decoded[req.body.fileData]

\* faulty variant: the magic number is checked before the declared size
ValidateMagicFirst(req) ==
    IF ~IncludesMultipart(req.contentType) THEN
        ErrorResponse(400, "Invalid content type")
    ELSE IF ~req.body.isObject THEN
        ErrorResponse(400, "No file provided")
    ELSE IF req.body.fileData = <<>> \/ req.body.fileName = <<>> THEN
        ErrorResponse(400, "Missing file data or name")
    ELSE IF ~validatePDF(FileBuffer(req)) THEN
        ErrorResponse(400, "Invalid PDF file")
    ELSE IF \E n \in req.body.fileSize : n > maxSize THEN
        ErrorResponse(400, "File too large. Max size is 5MB.")
    ELSE NoResponse

Validate(req) ==
    IF ~IncludesMultipart(req.contentType) THEN
        ErrorResponse(400, "Invalid content type")
    ELSE IF ~req.body.isObject THEN
        ErrorResponse(400, "No file provided")
    ELSE IF req.body.fileData = <<>> \/ req.body.fileName = <<>> THEN
        ErrorResponse(400, "Missing file data or name")
    ELSE IF \E n \in req.body.fileSize : n > maxSize THEN
        ErrorResponse(400, "File too large. Max size is 5MB.")
    ELSE IF ~validatePDF(FileBuffer(req)) THEN
        ErrorResponse(400, "Invalid PDF file")
    ELSE NoResponse

\* faulty variant: the upload overwrites
UploadOptionsUpsert ==
    [contentType |-> "application/pdf", cacheControl |-> "3600", upsert |-> TRUE]

\* the options of the upload call
UploadOptions ==
    [contentType |-> "application/pdf", cacheControl |-> "3600", upsert |-> FALSE]

SignedUrl(key, mode) == <<"signed", key, mode>>

\* faulty variant: both links are the view link
SuccessResponseSameUrl(key) ==
    [status |-> 200, error |-> "", url |-> SignedUrl(key, "view"),
     downloadUrl |-> SignedUrl(key, "view")]

\* the success response (without its message, file name and expiry)
SuccessResponse(key) ==
    [status |-> 200, error |-> "", url |-> SignedUrl(key, "view"),
     downloadUrl |-> SignedUrl(key, "download")]

\* faulty variant: the error of the upload is not looked at
UploadFailedNever(put) == FALSE

\* if (uploadError)
UploadFailed(put) == put \in {"duplicate", "error"}

\* faulty variant: only the error of the view link is looked at
UrlGenerationFailedViewOnly(view, dl) == view = "error"

\* viewUrlResult.error || downloadUrlResult.error
UrlGenerationFailed(view, dl) == view = "error" \/ dl = "error"

(***************************************************************************)
(* The observer of the rate-limit checks.  Per ip and for the current      *)
(* window, counted from its first check: admits, the number of checks      *)
(* admitted before resetAt; rejectedAt, the values admits had when a check *)
(* before resetAt was rejected; edgeAdmits, the number of checks admitted  *)
(* at exactly resetAt.  A check made after resetAt starts the next window. *)
(* lost is the count the key's window had when the process last restarted  *)
(* (0 if it had none, or if the process never restarted); a restart closes *)
(* the observed window.                                                    *)
(***************************************************************************)
Observe(a, t, verdict) ==
    IF ~a.open \/ t > a.resetAt THEN
        [open |-> TRUE, resetAt |-> t + WINDOW_MS,
         admits |-> IF verdict = "admit" THEN 1 ELSE 0,
         rejectedAt |-> IF verdict = "admit" THEN {} ELSE {0},
         edgeAdmits |-> 0, lost |-> a.lost]
    ELSE IF t = a.resetAt THEN
        [a EXCEPT !.edgeAdmits = IF verdict = "admit" THEN @ + 1 ELSE @]
    ELSE IF verdict = "admit" THEN
        [a EXCEPT !.admits = @ + 1]
    ELSE
        [a EXCEPT !.rejectedAt = @ \cup {a.admits}]

(***************************************************************************)
(* Actions.  A step of handler runs from one await to the next; the step   *)
(* that follows an await is taken together with the settling of the        *)
(* awaited storage call, whose result is all it reads.                     *)
(***************************************************************************)
\* time passes
Tick ==
    /\ \E t \in Instants : t > now /\ now' = t
    /\ out' = NoOut
    /\ UNCHANGED <<uploadCounts, bucket, slots, audit>>

Answer(slot, req, put, view, dl, resp) ==
    [req |-> req, key |-> slot.key, calls |-> slot.calls, put |-> put,
     view |-> view, dl |-> dl, resp |-> resp]

\* generateFileName(fileName) at each instant, computed once per argument
FileNames == {NameA, NameB}

uniqueFileName ==
    [fileName \in FileNames, t \in Instants |-> generateFileName(fileName, t)]

\* faulty variant: the rate limiter is consulted before the method is
\* looked at
ReceiveLimiterFirst(s, req) ==
    /\ slots[s].pc = "idle"
    /\ UNCHANGED <<now, bucket>>
    /\ LET clientIP == getClientIP(req)
           checked == isRateLimited(uploadCounts, clientIP, now)
           rejection == IF checked.limited
                        THEN ErrorResponse(429,
                               "Too many uploads. Please try again later.")
                        ELSE IF req.method # "POST"
                        THEN ErrorResponse(405, "Method not allowed")
                        ELSE Validate(req)
       IN  /\ uploadCounts' = checked.counts
           /\ audit' = [audit EXCEPT ![clientIP] =
                           Observe(@, now, IF rejection.status = 429
                                           THEN "reject" ELSE "admit")]
           /\ IF rejection # NoResponse THEN
                  /\ out' = Answer(IdleSlot, req, "none", "none", "none",
                                   rejection)
                  /\ UNCHANGED slots
              ELSE
                  /\ out' = NoOut
                  /\ slots' = [slots EXCEPT ![s] =
                        [pc |-> "upload", req |-> req,
                         key |-> uniqueFileName[req.body.fileName, now],
                         calls |-> <<"upload">>, put |-> "pending"]]

\* handler, from its entry to the first await (the upload call)
Receive(s, req) ==
    /\ slots[s].pc = "idle"
    /\ UNCHANGED <<now, bucket>>
    /\ IF req.method # "POST" THEN
           /\ out' = Answer(IdleSlot, req, "none", "none", "none",
                            ErrorResponse(405, "Method not allowed"))
           /\ UNCHANGED <<uploadCounts, audit, slots>>
       ELSE
           LET clientIP == getClientIP(req)
               checked == isRateLimited(uploadCounts, clientIP, now)
               rejection == IF checked.limited
                            THEN ErrorResponse(429,
                                   "Too many uploads. Please try again later.")
                            ELSE Validate(req)
           IN  /\ uploadCounts' = checked.counts
               /\ audit' = [audit EXCEPT ![clientIP] =
                               Observe(@, now, IF rejection.status = 429
                                               THEN "reject" ELSE "admit")]
               /\ IF rejection # NoResponse THEN
                      /\ out' = Answer(IdleSlot, req, "none", "none", "none",
                                       rejection)
                      /\ UNCHANGED slots
                  ELSE
                      /\ out' = NoOut
                      /\ slots' = [slots EXCEPT ![s] =
                            [pc |-> "upload", req |-> req,
                             key |-> uniqueFileName[req.body.fileName, now],
                             calls |-> <<"upload">>, put |-> "pending"]]

\* the upload call of slot s settles (a key that exists is refused unless
\* the call asks for upsert) and handler runs on to the await of the two
\* signed URLs, or to its response
UploadSettles(s) ==
    /\ slots[s].pc = "upload"
    /\ UNCHANGED <<now, uploadCounts, audit>>
    /\ \E put \in {"ok", "duplicate", "error", "thrown"} :
          /\ put = "ok" =>
                (slots[s].key \in DOMAIN bucket => UploadOptions.upsert)
          /\ put = "duplicate" =>
                (slots[s].key \in DOMAIN bucket /\ ~UploadOptions.upsert)
          /\ bucket' = IF put = "ok"
                       THEN (slots[s].key :> FileBuffer(slots[s].req)) @@ bucket
                       ELSE bucket
          /\ IF put = "thrown" THEN
                 /\ out' = Answer(slots[s], slots[s].req, put, "none", "none",
                                  ErrorResponse(500, "Internal server error"))
                 /\ slots' = [slots EXCEPT ![s] = IdleSlot]
             ELSE IF UploadFailed(put) THEN
                 /\ out' = Answer(slots[s], slots[s].req, put, "none", "none",
                                  ErrorResponse(500, "Upload failed"))
                 /\ slots' = [slots EXCEPT ![s] = IdleSlot]
             ELSE
                 /\ out' = NoOut
                 /\ slots' = [slots EXCEPT ![s].pc = "sign", ![s].put = put,
                                 ![s].calls = @ \o <<"createSignedUrl",
                                                     "createSignedUrlDownload">>]

\* faulty variant: when a signed URL is refused the upload is tried again
UrlsSettleRetry(s) ==
    /\ slots[s].pc = "sign"
    /\ UNCHANGED <<now, uploadCounts, bucket, audit>>
    /\ \E view, dl \in {"ok", "error", "thrown", "pending"} :
          /\ "pending" \in {view, dl} => "thrown" \in {view, dl}
          /\ IF "thrown" \notin {view, dl} /\ UrlGenerationFailed(view, dl) THEN
                 /\ out' = NoOut
                 /\ slots' = [slots EXCEPT ![s].pc = "upload",
                                 ![s].put = "pending",
                                 ![s].calls = <<"upload">>]
             ELSE
                 /\ out' = Answer(slots[s], slots[s].req, slots[s].put, view, dl,
                       IF "thrown" \in {view, dl} THEN
                           ErrorResponse(500, "Internal server error")
                       ELSE SuccessResponse(slots[s].key))
                 /\ slots' = [slots EXCEPT ![s] = IdleSlot]

\* Promise.all of the two createSignedUrl calls of slot s settles (it
\* rejects as soon as one call throws, the other may then be pending) and
\* handler runs on to its response
UrlsSettle(s) ==
    /\ slots[s].pc = "sign"
    /\ UNCHANGED <<now, uploadCounts, bucket, audit>>
    /\ \E view, dl \in {"ok", "error", "thrown", "pending"} :
          /\ "pending" \in {view, dl} => "thrown" \in {view, dl}
          /\ out' = Answer(slots[s], slots[s].req, slots[s].put, view, dl,
                IF "thrown" \in {view, dl} THEN
                    ErrorResponse(500, "Internal server error")
                ELSE IF UrlGenerationFailed(view, dl) THEN
                    ErrorResponse(500, "Failed to generate URLs")
                ELSE SuccessResponse(slots[s].key))
    /\ slots' = [slots EXCEPT ![s] = IdleSlot]

\* faulty variant: the map outlives the process
RestartKeepsWindows ==
    /\ slots' = [s \in Slots |-> IdleSlot]
    /\ out' = NoOut
    /\ audit' = [ip \in IPs |->
                    [NoAudit EXCEPT !.lost = IF ip \in DOMAIN uploadCounts
                                             THEN uploadCounts[ip].count
                                             ELSE 0]]
    /\ UNCHANGED <<now, uploadCounts, bucket>>

\* the process restarts: the module is loaded anew (uploadCounts is a new,
\* empty Map) and the invocations in progress are gone with the process;
\* the bucket, kept by the storage service, is untouched
Restart ==
    /\ uploadCounts' = <<>>
    /\ slots' = [s \in Slots |-> IdleSlot]
    /\ out' = NoOut
    /\ audit' = [ip \in IPs |->
                    [NoAudit EXCEPT !.lost = IF ip \in DOMAIN uploadCounts
                                             THEN uploadCounts[ip].count
                                             ELSE 0]]
    /\ UNCHANGED <<now, bucket>>

(***************************************************************************)
(* Specification Spec: two invocations of handler at a time, fed with      *)
(* uploads that pass every gate up to the PDF check (two of them get the   *)
(* same storage key for different bytes when received at the same          *)
(* instant) and one that is not a PDF.                                     *)
(***************************************************************************)
Uploads ==
    { GoodRequest,
      [GoodRequest EXCEPT !.body.fileData = PdfB, !.body.fileName = NameB],
      [GoodRequest EXCEPT !.body.fileData = NotPdf] }

Init == InitWith({"w1", "w2"})

Next ==
    \/ Tick /\ UNCHANGED clientVars
    \/ \E s \in Slots, req \in Uploads :
          Receive(s, req) /\ UNCHANGED clientVars
    \/ \E s \in Slots : UploadSettles(s) /\ UNCHANGED clientVars
    \/ \E s \in Slots : UrlsSettle(s) /\ UNCHANGED clientVars

Spec == Init /\ [][Next]_vars

(***************************************************************************)
(* Specification SpecLive: two invocations of handler at a time, fed with  *)
(* one upload that passes every gate and one that is not a PDF, for the    *)
(* runs in which every storage call that was made returns, so that the     *)
(* step of handler that awaits it is eventually taken.                     *)
(***************************************************************************)
LiveRequests ==
    { GoodRequest, [GoodRequest EXCEPT !.body.fileData = NotPdf] }

NextLive ==
    \/ Tick /\ UNCHANGED clientVars
    \/ \E s \in Slots, req \in LiveRequests :
          Receive(s, req) /\ UNCHANGED clientVars
    \/ \E s \in Slots : UploadSettles(s) /\ UNCHANGED clientVars
    \/ \E s \in Slots : UrlsSettle(s) /\ UNCHANGED clientVars

SpecLive ==
    /\ Init /\ [][NextLive]_vars
    /\ \A s \in {"w1", "w2"} :
          /\ WF_vars(UploadSettles(s) /\ UNCHANGED clientVars)
          /\ WF_vars(UrlsSettle(s) /\ UNCHANGED clientVars)

(***************************************************************************)
(* Specification SpecGates: one invocation of handler at a time, fed with  *)
(* every body under the good method and content type, and every method    *)
(* and content type with three of the bodies.                              *)
(***************************************************************************)
Bodies ==
    {NoBody} \cup
    { Body(fileData, fileName, fileSize) :
        fileData \in {<<>>, PdfA, NotPdf, ShortPdf, LowerPdf},
        fileName \in {<<>>, NameA},
        fileSize \in {{}, {1024}, {maxSize}, {maxSize + 1}} }

AnyRequest ==
    { Request("POST", GoodRequest.xff, "", Multipart, body) : body \in Bodies }
    \cup
    { Request(method, GoodRequest.xff, "", contentType, body) :
        method \in {"POST", "GET"},
        contentType \in {"", "application/json", Multipart},
        body \in { NoBody, GoodRequest.body,
                   Body(NotPdf, NameA, {maxSize + 1}) } }

InitGates == InitWith({"w1"})

NextGates ==
    \/ Tick /\ UNCHANGED clientVars
    \/ \E s \in Slots, req \in AnyRequest :
          Receive(s, req) /\ UNCHANGED clientVars
    \/ \E s \in Slots : UploadSettles(s) /\ UNCHANGED clientVars
    \/ \E s \in Slots : UrlsSettle(s) /\ UNCHANGED clientVars

SpecGates == InitGates /\ [][NextGates]_vars

(***************************************************************************)
(* Specification SpecKeys: one invocation of handler at a time, fed with   *)
(* requests of two clients: ipA, named first in x-forwarded-for by one     *)
(* request and by x-real-ip alone by another, and the client that sends    *)
(* neither header.                                                         *)
(***************************************************************************)
KeyedRequests ==
    { GoodRequest,
      [GoodRequest EXCEPT !.xff = <<"">>, !.xri = "ipA",
                          !.body.fileData = NotPdf],
      [GoodRequest EXCEPT !.xff = <<>>, !.body.fileSize = {maxSize + 1}] }

NextKeys ==
    \/ Tick /\ UNCHANGED clientVars
    \/ \E s \in Slots, req \in KeyedRequests :
          Receive(s, req) /\ UNCHANGED clientVars
    \/ \E s \in Slots : UploadSettles(s) /\ UNCHANGED clientVars
    \/ \E s \in Slots : UrlsSettle(s) /\ UNCHANGED clientVars

SpecKeys == InitGates /\ [][NextKeys]_vars

(***************************************************************************)
(* Specification SpecRestart: one invocation of handler at a time, fed     *)
(* with the requests of SpecLive, in a process that may restart at any     *)
(* moment.                                                                 *)
(***************************************************************************)
NextRestart ==
    \/ Tick /\ UNCHANGED clientVars
    \/ \E s \in Slots, req \in LiveRequests :
          Receive(s, req) /\ UNCHANGED clientVars
    \/ \E s \in Slots : UploadSettles(s) /\ UNCHANGED clientVars
    \/ \E s \in Slots : UrlsSettle(s) /\ UNCHANGED clientVars
    \/ Restart /\ UNCHANGED clientVars

SpecRestart == InitGates /\ [][NextRestart]_vars

(***************************************************************************)
(* Specification SpecNames: generateFileName alone.  A declared file name  *)
(* (never empty: the handler refuses an empty fileName before it names     *)
(* anything) is drawn from the names of at most MaxNameLen characters over *)
(* a letter, a capital, the dot, a character that is stripped and a space, *)
(* and from one longer name; generateFileName is applied to it up to       *)
(* MaxKeys times while the clock advances.                                 *)
(***************************************************************************)
MaxNameLen == 3

MaxKeys == 2

NameChars == {"a", "B", ".", "!", " "}

RECURSIVE NamesOfLength(_)
NamesOfLength(n) ==
    IF n = 0 THEN {<<>>}
    ELSE {<<c>> \o s : c \in NameChars, s \in NamesOfLength(n - 1)}

MyFile == <<"M","y"," ","F","i","l","e","!",".","p","d","f">>

DeclaredNames ==
    UNION {NamesOfLength(n) : n \in 1..MaxNameLen} \cup {MyFile}

InitNames ==
    /\ now = 0
    /\ uploadCounts = <<>>
    /\ bucket = <<>>
    /\ slots = [s \in {"w1"} |-> IdleSlot]
    /\ out = NoOut
    /\ audit = [ip \in IPs |-> NoAudit]
    /\ named \in {[originalName |-> n, keys |-> <<>>] : n \in DeclaredNames}
    /\ widget = MountedWidget

\* const uniqueFileName = generateFileName(fileName), at the instant now
Generate ==
    /\ Len(named.keys) < MaxKeys
    /\ named' = [named EXCEPT !.keys =
                    Append(@, [at |-> now,
                               key |-> generateFileName(named.originalName, now)])]
    /\ UNCHANGED <<now, uploadCounts, bucket, slots, out, audit, widget>>

NextNames ==
    \/ Tick /\ UNCHANGED clientVars
    \/ Generate

SpecNames == InitNames /\ [][NextNames]_vars

(***************************************************************************)
(* The FileUpload component (src/components/FileUpload.tsx).  A state      *)
(* setter takes effect with the event or continuation that calls it.       *)
(***************************************************************************)
PdfFile == File("application/pdf", 1024, NameA, PdfA)

TextFile == File("text/plain", 1024, NameA, NotPdf)

BigFile == File("application/pdf", maxSize + 1, NameA, PdfA)

FakePdfFile == File("application/pdf", 1024, NameA, NotPdf)

\* validateFile: the error it sets, "" when it returns true
validateFile(file) ==
    IF file.type # "application/pdf" THEN "Only PDF files are allowed"
    ELSE IF file.size > 5 * 1024 * 1024 THEN "File size must be less than 5MB"
    ELSE ""

\* the first call of uploadFile that is not in progress
FreeCalls(w) == {c \in Calls : w.calls[c].pc = "none"}

FreeCall(w) == CHOOSE c \in FreeCalls(w) : \A d \in FreeCalls(w) : c <= d

\* uploadFile(file), from its entry to the await of fileToBase64
uploadFile(w, file) ==
    IF validateFile(file) # "" THEN
        [w EXCEPT !.error = validateFile(file), !.settled = NoSettled]
    ELSE
        [w EXCEPT !.uploading = TRUE, !.error = "", !.settled = NoSettled,
                  !.calls[FreeCall(w)] = [NoCall EXCEPT !.pc = "reading",
                                                        !.file = file]]

\* onChange of the file input, which is rendered while uploadedFile is
\* null and is disabled while uploading
handleFileSelect(file) ==
    /\ widget.uploadedFile = NoUploadedFile
    /\ ~widget.uploading
    /\ FreeCalls(widget) # {}
    /\ widget' = uploadFile(widget, file)
    /\ UNCHANGED <<now, uploadCounts, bucket, slots, out, audit, named>>

\* onDrop of the drop zone, which is rendered while uploadedFile is null
handleDrop(file) ==
    /\ widget.uploadedFile = NoUploadedFile
    /\ FreeCalls(widget) # {}
    /\ widget' = uploadFile([widget EXCEPT !.dragActive = FALSE], file)
    /\ UNCHANGED <<now, uploadCounts, bucket, slots, out, audit, named>>

\* onDragEnter, onDragOver, onDragLeave of the drop zone
handleDrag(type) ==
    /\ widget.uploadedFile = NoUploadedFile
    /\ widget' = [widget EXCEPT !.dragActive = (type # "dragleave"),
                                !.settled = NoSettled]
    /\ UNCHANGED <<now, uploadCounts, bucket, slots, out, audit, named>>

\* the button 'Upload Another File', rendered while uploadedFile is set
resetUpload ==
    /\ widget.uploadedFile # NoUploadedFile
    /\ widget' = [widget EXCEPT !.uploadedFile = NoUploadedFile, !.error = "",
                                !.settled = NoSettled]
    /\ UNCHANGED <<now, uploadCounts, bucket, slots, out, audit, named>>

\* the button 'Dismiss', rendered while error is set
dismissError ==
    /\ widget.error # ""
    /\ widget' = [widget EXCEPT !.error = "", !.settled = NoSettled]
    /\ UNCHANGED <<now, uploadCounts, bucket, slots, out, audit, named>>

\* fileToBase64 of call c settles: the reader loaded the file and fetch
\* sends the request, or the reader failed (reject with an event that is no
\* Error) and the call ends through catch and finally
ReaderSettles(c, loaded) ==
    /\ widget.calls[c].pc = "reading"
    /\ widget' = IF loaded
                 THEN [widget EXCEPT !.calls[c].pc = "fetching",
                                     !.settled = NoSettled]
                 ELSE [widget EXCEPT !.error = "Upload failed",
                                     !.uploading = FALSE,
                                     !.calls[c] = NoCall,
                                     !.settled = [file |-> widget.calls[c].file,
                                                  response |-> NoResponse]]
    /\ UNCHANGED <<now, uploadCounts, bucket, slots, out, audit, named>>

\* fetch rejected: no response, a TypeError with a message
NetworkFailure ==
    [status |-> -1, error |-> "Failed to fetch", url |-> <<>>,
     downloadUrl |-> <<>>]

\* response.ok
Ok(resp) == resp.status >= 200 /\ resp.status <= 299

\* fetch of call c settles with resp and uploadFile runs to its end: the
\* links of an ok response are kept, the error of any other response (or
\* the message of the rejection) is shown, and finally uploading is cleared
FetchSettles(c, resp) ==
    /\ widget.calls[c].pc = "fetching"
    /\ widget' =
          [widget EXCEPT
             !.uploadedFile = IF Ok(resp)
                              THEN [url |-> resp.url,
                                    downloadUrl |-> resp.downloadUrl]
                              ELSE @,
             !.error = IF Ok(resp) THEN @
                       ELSE IF resp.error # "" THEN resp.error
                       ELSE "Upload failed",
             !.uploading = FALSE,
             !.calls[c] = NoCall,
             !.settled = [file |-> widget.calls[c].file, response |-> resp]]
    /\ UNCHANGED <<now, uploadCounts, bucket, slots, out, audit, named>>

(***************************************************************************)
(* Specification SpecWidget: the component alone.  The user selects and    *)
(* drops files, valid or not, at any moment the page allows it, and each   *)
(* fetch settles with one of the responses of the handler, with an error   *)
(* response that names no error, or with a network failure.                *)
(***************************************************************************)
WidgetFiles == {PdfFile, FakePdfFile, TextFile, BigFile}

FetchResults ==
    { SuccessResponse(uniqueFileName[NameA, 0]),
      ErrorResponse(400, "Invalid PDF file"),
      ErrorResponse(500, ""),
      NetworkFailure }

NextWidget ==
    \/ \E file \in WidgetFiles : handleFileSelect(file)
    \/ \E file \in WidgetFiles : handleDrop(file)
    \/ \E type \in {"dragenter", "dragover", "dragleave"} : handleDrag(type)
    \/ resetUpload
    \/ dismissError
    \/ \E c \in Calls, loaded \in BOOLEAN : ReaderSettles(c, loaded)
    \/ \E c \in Calls, resp \in FetchResults : FetchSettles(c, resp)

SpecWidget == InitGates /\ [][NextWidget]_vars

(***************************************************************************)
(* Specification SpecEndToEnd: the component and the handler.  The request *)
(* of a call of uploadFile that is at its fetch reaches the handler once   *)
(* (through the platform's proxy, which names the client ipA) and the      *)
(* response the handler sends for it is what the fetch settles with.       *)
(* Another client of the same address posts GoodRequest directly.  The     *)
(* user selects and drops files and dismisses errors; the file reader      *)
(* always loads the file.                                                  *)
(***************************************************************************)
\* the request fetch sends for file
FetchRequest(file) ==
    Request("POST", <<"ipA">>, "", "application/json",
            Body(file.base64, file.name, {file.size}))

\* the call of uploadFile that awaits the response to req, if any
Awaiting(req) ==
    {c \in Calls : /\ widget.calls[c].pc = "fetching"
                   /\ widget.calls[c].received
                   /\ widget.calls[c].response = NoResponse
                   /\ FetchRequest(widget.calls[c].file) = req}

\* the response of a step of handler, if it answers a request of the
\* component, arrives at the call that awaits it
Routed ==
    /\ widget' = IF out' # NoOut /\ Awaiting(out'.req) # {}
                 THEN [widget EXCEPT
                         ![ "calls" ][CHOOSE c \in Awaiting(out'.req) : TRUE]
                             .response = out'.resp]
                 ELSE widget
    /\ UNCHANGED named

\* the request of call c reaches the handler
Serve(s, c) ==
    /\ widget.calls[c].pc = "fetching"
    /\ ~widget.calls[c].received
    /\ Receive(s, FetchRequest(widget.calls[c].file))
    /\ widget' = [widget EXCEPT !.calls[c].received = TRUE,
                                !.calls[c].response = out'.resp]
    /\ UNCHANGED named

EndToEndFiles == {PdfFile, TextFile}

NextEndToEnd ==
    \/ Tick /\ UNCHANGED clientVars
    \/ \E s \in Slots : Receive(s, GoodRequest) /\ UNCHANGED clientVars
    \/ \E s \in Slots, c \in Calls : Serve(s, c)
    \/ \E s \in Slots : UploadSettles(s) /\ Routed
    \/ \E s \in Slots : UrlsSettle(s) /\ Routed
    \/ \E file \in EndToEndFiles : handleFileSelect(file)
    \/ \E file \in EndToEndFiles : handleDrop(file)
    \/ dismissError
    \/ \E c \in Calls : ReaderSettles(c, TRUE)
    \/ \E c \in Calls :
          /\ widget.calls[c].response # NoResponse
          /\ FetchSettles(c, widget.calls[c].response)

SpecEndToEnd == InitGates /\ [][NextEndToEnd]_vars

(***************************************************************************)
(* Properties.                                                             *)
(***************************************************************************)
Admits(a) == a.admits + a.edgeAdmits

InFlight == {s \in Slots : slots[s].pc # "idle"}

TooManyUploads == ErrorResponse(429, "Too many uploads. Please try again later.")

\* C1: for every client key and every window of that key, from the check
\* that opens it up to and including its resetAt, at most 5 checks are
\* admitted, whatever the interleaving of the invocations of handler.
C1_AtMostFiveAdmitsPerWindow ==
    \A ip \in IPs : Admits(audit[ip]) <= 5

\* the window of ipA is full and a further request is rejected while an
\* upload admitted in that window is still awaiting the storage service
C1_Witness ==
    /\ out.resp = TooManyUploads
    /\ Admits(audit["ipA"]) = 5
    /\ \E s \in InFlight :
          /\ slots[s].pc = "upload"
          /\ getClientIP(slots[s].req) = "ipA"

\* C2: of the checks made for a key from the first one and before the
\* window's resetAt, the first 5 admit and every later one rejects (no more
\* than 5 admit, and a check is rejected only after 5 were admitted), a
\* rejection being answered 429 'Too many uploads. Please try again later.';
\* the first check made after resetAt is again the first of a window (it
\* admits), and the window the code keeps is the one opened by that check.
C2_FiveAdmitsThenReject ==
    /\ \A ip \in IPs :
          /\ audit[ip].admits <= 5
          /\ audit[ip].rejectedAt \subseteq {5}
          /\ audit[ip].open =>
                /\ ip \in DOMAIN uploadCounts
                /\ uploadCounts[ip].resetTime = audit[ip].resetAt
    /\ out.resp.status = 429 =>
          /\ out.resp = TooManyUploads
          /\ Admits(audit[getClientIP(out.req)]) = 5

\* after five admitted checks, the sixth check of a window opened at or
\* after the end of the first hour is rejected with 429
C2_Witness ==
    /\ out.resp = TooManyUploads
    /\ audit["ipA"].resetAt > WINDOW_MS
    /\ audit["ipA"].admits = 5
    /\ audit["ipA"].rejectedAt = {5}

StartsWithMagic(bytes) ==
    /\ Len(bytes) >= 4
    /\ bytes[1] = 37 /\ bytes[2] = 80 /\ bytes[3] = 68 /\ bytes[4] = 70

DeclaredTooLarge(req) == \E n \in req.body.fileSize : n > 5 * 1024 * 1024

\* the answered request passed the gates that precede the size check
ReachedValidator(o) ==
    /\ o # NoOut
    /\ o.req.method = "POST"
    /\ o.resp.status # 429
    /\ o.req.contentType = Multipart
    /\ o.req.body.isObject
    /\ o.req.body.fileData # <<>>
    /\ o.req.body.fileName # <<>>

Uploaded(calls) == Cardinality({i \in DOMAIN calls : calls[i] = "upload"})

AllCalls == <<"upload", "createSignedUrl", "createSignedUrlDownload">>

\* C3: a request that passed the earlier gates and whose decoded fileData
\* does not begin with the bytes '%PDF' is answered 400 'Invalid PDF file'
\* without any storage call; no request with such bytes ever has a storage
\* call pending and no such bytes are ever stored.
C3_NotPdfNeverStored ==
    /\ (ReachedValidator(out) /\ ~DeclaredTooLarge(out.req)
            /\ ~StartsWithMagic(FileBuffer(out.req)))
          => (out.resp = ErrorResponse(400, "Invalid PDF file") /\ out.calls = <<>>)
    /\ (out # NoOut /\ ~StartsWithMagic(FileBuffer(out.req))) => out.calls = <<>>
    /\ \A s \in InFlight : StartsWithMagic(FileBuffer(slots[s].req))
    /\ \A k \in DOMAIN bucket : StartsWithMagic(bucket[k])

\* a request whose bytes are '%PD' is answered 400 'Invalid PDF file'
C3_Witness ==
    /\ out.req.body.fileData = ShortPdf
    /\ out.resp = ErrorResponse(400, "Invalid PDF file")
    /\ out.calls = <<>>

\* C4: when the upload returns an error the request is answered 500
\* 'Upload failed' after that single upload call, with no createSignedUrl
\* call; only a request whose upload succeeded awaits signed URLs.
C4_UploadErrorIsFinal ==
    /\ out.put \in {"duplicate", "error"} =>
          (out.resp = ErrorResponse(500, "Upload failed") /\ out.calls = <<"upload">>)
    /\ \A s \in Slots : slots[s].pc = "sign" => slots[s].put = "ok"
    /\ \A s \in Slots : slots[s].pc = "upload" => slots[s].calls = <<"upload">>

\* an upload to a key that does not exist failed and was answered 500
C4_Witness ==
    /\ out.put = "error"
    /\ out.key \notin DOMAIN bucket
    /\ out.resp = ErrorResponse(500, "Upload failed")

\* C5: when the upload succeeded and a signed-URL call failed (returned an
\* error or threw), the answer is a 500 without URL, the object is in the
\* bucket with the request's bytes, and the storage calls made for the
\* request are the upload and the two createSignedUrl calls, nothing else.
C5_OrphanLeftBehind ==
    (out.put = "ok" /\ {out.view, out.dl} \cap {"error", "thrown"} # {}) =>
        /\ out.resp.status = 500
        /\ out.resp.url = <<>> /\ out.resp.downloadUrl = <<>>
        /\ out.key \in DOMAIN bucket
        /\ bucket[out.key] = FileBuffer(out.req)
        /\ out.calls = AllCalls

\* the view link was issued, the download link failed: 500, object stored
C5_Witness ==
    /\ out.put = "ok" /\ out.view = "ok" /\ out.dl = "error"
    /\ out.resp = ErrorResponse(500, "Failed to generate URLs")
    /\ out.key \in DOMAIN bucket

\* C6: no request makes more than one upload call, and a 200 is sent only
\* after that upload and both createSignedUrl calls for the same key
\* succeeded; it carries the view link and the download link of that key.
C6_SuccessMeansAllSucceeded ==
    /\ \A s \in Slots : Uploaded(slots[s].calls) <= 1
    /\ Uploaded(out.calls) <= 1
    /\ out.resp.status = 200 =>
          /\ out.put = "ok" /\ out.view = "ok" /\ out.dl = "ok"
          /\ out.calls = AllCalls
          /\ out.key \in DOMAIN bucket
          /\ bucket[out.key] = FileBuffer(out.req)
          /\ out.resp.url = <<"signed", out.key, "view">>
          /\ out.resp.downloadUrl = <<"signed", out.key, "download">>

\* a request is answered 200
C6_Witness ==
    /\ out.resp.status = 200
    /\ out.calls = AllCalls

\* C7 as stated: bytes that do not begin with '%PDF' are rejected as
\* 'Invalid PDF file' whatever the declared size.
C7_AsStated ==
    (ReachedValidator(out) /\ ~StartsWithMagic(FileBuffer(out.req)))
        => out.resp = ErrorResponse(400, "Invalid PDF file")

\* C7 amended: bytes that do not begin with '%PDF' are rejected as 'Invalid
\* PDF file' when the declared size is absent or at most 5 MiB, and as
\* 'File too large. Max size is 5MB.' when the declared size exceeds 5 MiB.
C7_InvalidPdfUnlessTooLarge ==
    (ReachedValidator(out) /\ ~StartsWithMagic(FileBuffer(out.req)))
        => out.resp = IF DeclaredTooLarge(out.req)
                      THEN ErrorResponse(400, "File too large. Max size is 5MB.")
                      ELSE ErrorResponse(400, "Invalid PDF file")

\* bytes '%pdf-1' with a declared size of exactly 5 MiB: 'Invalid PDF file'
C7_Witness ==
    /\ out.req.body.fileData = LowerPdf
    /\ out.req.body.fileSize = {5 * 1024 * 1024}
    /\ out.resp = ErrorResponse(400, "Invalid PDF file")

\* C8 as stated: every request that declares more than 5 MiB is answered
\* 400 'File too large. Max size is 5MB.'
C8_AsStated ==
    (out # NoOut /\ DeclaredTooLarge(out.req))
        => out.resp = ErrorResponse(400, "File too large. Max size is 5MB.")

\* C8 amended: every request that passed the gates before the size check
\* (POST, admitted by the limiter, multipart content type, object body with
\* fileData and fileName) and declares more than 5 MiB is answered 400
\* 'File too large. Max size is 5MB.', whatever its bytes, without any
\* storage call.
C8_TooLargeBeforeMagic ==
    (ReachedValidator(out) /\ DeclaredTooLarge(out.req))
        => (out.resp = ErrorResponse(400, "File too large. Max size is 5MB.")
            /\ out.calls = <<>>)

\* bytes that are no PDF, declared larger than 5 MiB: 'File too large'
C8_Witness ==
    /\ out.req.body.fileData = NotPdf
    /\ DeclaredTooLarge(out.req)
    /\ out.resp = ErrorResponse(400, "File too large. Max size is 5MB.")

\* C9: the count of a key's window is the number of POST requests of that
\* window that were not answered 429, whatever became of them, and a 429
\* is sent only when that number is 5.
C9_AttemptsConsumeSlots ==
    /\ \A ip \in IPs :
          audit[ip].open =>
              /\ ip \in DOMAIN uploadCounts
              /\ uploadCounts[ip].count = Admits(audit[ip])
    /\ \A ip \in DOMAIN uploadCounts : audit[ip].open
    /\ out.resp.status = 429 =>
          uploadCounts[getClientIP(out.req)].count = 5

\* five requests used up the window, nothing was stored, the next is a 429
C9_Witness ==
    /\ out.resp = TooManyUploads
    /\ getClientIP(out.req) = "ipA"
    /\ uploadCounts["ipA"].count = 5
    /\ bucket = <<>>
    /\ InFlight = {}

\* C10: an upload to a key that exists is refused and answered 500 'Upload
\* failed'; an upload succeeds only for a key that does not exist yet; an
\* object, once stored, stays with the bytes it was stored with.
C10_WriteOnce ==
    /\ [](out.put = "duplicate" =>
            /\ out.resp = ErrorResponse(500, "Upload failed")
            /\ out.key \in DOMAIN bucket)
    /\ [][ /\ \A k \in DOMAIN bucket :
                k \in DOMAIN bucket' /\ bucket'[k] = bucket[k]
           /\ \A s \in Slots :
                (slots[s].pc = "upload" /\ slots'[s].pc = "sign")
                    => slots[s].key \notin DOMAIN bucket ]_vars

\* two uploads got the same key for different bytes: one is stored and
\* still awaits its links, the other was refused
C10_Witness ==
    /\ out.put = "duplicate"
    /\ out.key \in DOMAIN bucket
    /\ bucket[out.key] # FileBuffer(out.req)
    /\ \E s \in Slots : slots[s].pc = "sign" /\ slots[s].key = out.key

InternalServerError == ErrorResponse(500, "Internal server error")

Occurrences(calls, c) == Cardinality({i \in DOMAIN calls : calls[i] = c})

\* C11: a request admitted to the storage steps whose storage calls return
\* is eventually answered; it is answered exactly once (a response for it is
\* sent in the step in which its invocation ends, and in no other step),
\* with a 200 or a 500; its invocation moves forward only (upload, then the
\* two signed URLs, then the end), so no step is retried and each of the
\* three storage calls is made at most once; a storage call that throws is
\* answered 500 'Internal server error'.
C11_OneFinalResponse ==
    /\ \A s \in {"w1", "w2"} : (slots[s].pc # "idle") ~> (slots[s].pc = "idle")
    /\ [](/\ \A s \in Slots : \A c \in Range(AllCalls) :
               Occurrences(slots[s].calls, c) <= 1
          /\ \A c \in Range(AllCalls) : Occurrences(out.calls, c) <= 1
          /\ (out.put = "thrown" \/ "thrown" \in {out.view, out.dl})
                => out.resp = InternalServerError)
    /\ [][ /\ \A s \in Slots :
                /\ <<slots[s].pc, slots'[s].pc>> \in
                      { <<"idle", "idle">>, <<"idle", "upload">>,
                        <<"upload", "upload">>, <<"upload", "sign">>,
                        <<"upload", "idle">>, <<"sign", "sign">>,
                        <<"sign", "idle">> }
                /\ (slots[s].pc # "idle" /\ slots'[s].pc = "idle") =>
                      /\ out'.req = slots[s].req
                      /\ out'.key = slots[s].key
                      /\ out'.calls = slots[s].calls
                      /\ out'.resp.status \in {200, 500}
           /\ out'.calls # <<>> =>
                Cardinality({s \in Slots : slots[s].pc # "idle"
                                            /\ slots'[s].pc = "idle"}) = 1
           /\ (\E s \in Slots : slots[s].pc = "idle" /\ slots'[s].pc # "idle")
                => out' = NoOut ]_vars

\* the upload of one request threw and was answered 500 'Internal server
\* error' while the other request awaits its signed URLs
C11_Witness ==
    /\ out.put = "thrown"
    /\ out.calls = <<"upload">>
    /\ out.resp = InternalServerError
    /\ \E s \in Slots : slots[s].pc = "sign"

BeforeLastDot(s) == SubSeq(s, 1, LastDot(s) - 1)

AfterLastDot(s) == SubSeq(s, LastDot(s) + 1, Len(s))

\* C12 as stated: for every declared name whose sanitized form contains a
\* '.', the key generated at instant T is the decimal T, a hyphen, the
\* sanitized text before its last '.', a '.', and the text after it; for
\* 'My File!.pdf' it is '{T}-my-file.pdf'.
C12_AsStated ==
    \A i \in DOMAIN named.keys :
        LET sanitized == sanitizeFileName(named.originalName)
            T == DecimalDigits(named.keys[i].at)
        IN  /\ "." \in Range(sanitized) =>
                  named.keys[i].key =
                      T \o <<"-">> \o BeforeLastDot(sanitized)
                        \o <<".">> \o AfterLastDot(sanitized)
            /\ named.originalName = MyFile =>
                  named.keys[i].key =
                      T \o <<"-","m","y","-","f","i","l","e",".","p","d","f">>

\* C13: for every declared name, keys generated at distinct values of the
\* time source are distinct.
C13_DistinctInstantsDistinctKeys ==
    \A i, j \in DOMAIN named.keys :
        named.keys[i].at # named.keys[j].at
            => named.keys[i].key # named.keys[j].key

\* two keys were generated for one name one millisecond apart
C13_Witness ==
    /\ Len(named.keys) = 2
    /\ named.keys[2].at = named.keys[1].at + 1
    /\ named.keys[2].key # named.keys[1].key

\* the step is one in which handler calls isRateLimited for ip: a POST
\* request of ip is answered before any storage call, or starts its upload
CheckedNow(ip) ==
    \/ /\ out' # NoOut
       /\ out'.calls = <<>>
       /\ out'.req.method = "POST"
       /\ getClientIP(out'.req) = ip
    \/ \E s \in Slots :
          /\ slots[s].pc = "idle"
          /\ slots'[s].pc = "upload"
          /\ getClientIP(slots'[s].req) = ip

FreshWindow == [count |-> 1, resetTime |-> now + 60 * 60 * 1000]

\* C14 as stated: a check made for a key at the very instant of its
\* window's resetAt replaces the window with {count: 1, resetAt: now + 1
\* hour} and admits the request, whatever the count was.
C14_AsStated ==
    [][ \A ip \in DOMAIN uploadCounts :
          (CheckedNow(ip) /\ now = uploadCounts[ip].resetTime) =>
              /\ uploadCounts'[ip] = FreshWindow
              /\ out'.resp.status # 429 ]_vars

\* C15: a check that rejects (the step answers 429) is made for a key that
\* has a window with count 5 or more, and leaves the whole map, that key's
\* count and resetAt included, as it was.
C15_RejectionLeavesWindow ==
    [][ out'.resp.status = 429 =>
          /\ getClientIP(out'.req) \in DOMAIN uploadCounts
          /\ uploadCounts[getClientIP(out'.req)].count >= 5
          /\ uploadCounts' = uploadCounts ]_vars

\* a request is rejected one millisecond into a window opened at the end
\* of the first hour: the window still ends one hour after it was opened
C15_Witness ==
    /\ out.resp = TooManyUploads
    /\ getClientIP(out.req) = "ipA"
    /\ now = 60 * 60 * 1000 + 1
    /\ uploadCounts["ipA"] = [count |-> 5, resetTime |-> 2 * 60 * 60 * 1000]

\* C16: every stored window has a count from 1 to 5 and a resetAt that is
\* later than the present by at most one hour or already past; a step that
\* stores a window for a key that had none, or changes a key's resetAt,
\* stores {count: 1, resetAt: now + 1 hour} (so resetAt is the window's
\* creation time plus one hour, and a new window starts with count 1);
\* every other step leaves resetAt alone and adds at most 1 to the count.
C16_WindowShape ==
    /\ [](\A ip \in DOMAIN uploadCounts :
            /\ uploadCounts[ip].count \in 1..5
            /\ uploadCounts[ip].resetTime <= now + 60 * 60 * 1000
            /\ uploadCounts[ip].resetTime >= 60 * 60 * 1000
            /\ uploadCounts[ip].resetTime = audit[ip].resetAt)
    /\ [][ /\ DOMAIN uploadCounts \subseteq DOMAIN uploadCounts'
           /\ \A ip \in DOMAIN uploadCounts' :
                IF ip \notin DOMAIN uploadCounts
                   \/ uploadCounts'[ip].resetTime # uploadCounts[ip].resetTime
                THEN uploadCounts'[ip] = FreshWindow
                ELSE uploadCounts'[ip].count - uploadCounts[ip].count \in {0, 1}
         ]_vars

\* the full window of ipA was replaced, after its hour, by a window with
\* count 1
C16_Witness ==
    /\ "ipA" \in DOMAIN uploadCounts
    /\ uploadCounts["ipA"] = [count |-> 1, resetTime |-> 2 * 60 * 60 * 1000 + 1]
    /\ "unknown" \in DOMAIN uploadCounts
    /\ uploadCounts["unknown"].count = 5

\* C17: a key has a window in the map exactly if a check was made for it
\* since the process last (re)started, so a restart leaves the map empty;
\* the count of that window is the number of checks admitted for the key
\* since then and the first of them was admitted; a check made for a key
\* that has no window, whatever its count was before the restart, admits
\* and stores {count: 1, resetAt: now + 1 hour}.
C17_RestartForgets ==
    /\ [](\A ip \in IPs :
            /\ ip \in DOMAIN uploadCounts <=> audit[ip].open
            /\ audit[ip].open =>
                  /\ uploadCounts[ip].count = Admits(audit[ip])
                  /\ uploadCounts[ip].count >= 1
                  /\ 0 \notin audit[ip].rejectedAt)
    /\ [][ \A ip \in IPs :
             (CheckedNow(ip) /\ ip \notin DOMAIN uploadCounts) =>
                /\ uploadCounts'[ip] = FreshWindow
                /\ out'.resp.status # 429 ]_vars

\* the key had used up its window when the process restarted, within the
\* same hour: its next request is admitted and is the first of a window
C17_Witness ==
    /\ now = 0
    /\ audit["ipA"].lost = 5
    /\ "ipA" \in DOMAIN uploadCounts
    /\ uploadCounts["ipA"] = [count |-> 1, resetTime |-> 60 * 60 * 1000]
    /\ \E s \in Slots : slots[s].pc = "upload"

\* C18: a request whose method is not POST is answered 405 'Method not
\* allowed' in a step that leaves the rate-limit map, the observer of the
\* checks, the invocations in progress and the bucket as they were, and no
\* storage call is made for it.
C18_NotPostTouchesNothing ==
    [][ (out' # NoOut /\ out'.req.method # "POST") =>
          /\ out'.resp = ErrorResponse(405, "Method not allowed")
          /\ out'.calls = <<>>
          /\ out'.put = "none" /\ out'.view = "none" /\ out'.dl = "none"
          /\ uploadCounts' = uploadCounts
          /\ audit' = audit
          /\ slots' = slots
          /\ bucket' = bucket ]_vars

\* a GET is answered 405 while the client's window is full: it is not
\* answered 429 and the window stays as it is
C18_Witness ==
    /\ out.req.method = "GET"
    /\ out.resp = ErrorResponse(405, "Method not allowed")
    /\ getClientIP(out.req) \in DOMAIN uploadCounts
    /\ uploadCounts[getClientIP(out.req)].count = 5

\* C19 as stated: when a call of uploadFile ends for a file of type
\* application/pdf, of at most 5 MiB, whose content begins with '%PDF', and
\* the response it got is neither the rate limiter's 429 nor a 500 of a
\* failed storage call, the component holds the view and download links of
\* the response and shows no error.
C19_AsStated ==
    (/\ widget.settled.file.type = "application/pdf"
     /\ widget.settled.file.size <= 5 * 1024 * 1024
     /\ StartsWithMagic(BufferFromBase64(widget.settled.file.base64))
     /\ widget.settled.response.status \notin {429, 500})
        => /\ widget.settled.response.status = 200
           /\ widget.uploadedFile.url # <<>>
           /\ widget.uploadedFile.url = widget.settled.response.url
           /\ widget.uploadedFile.downloadUrl # <<>>
           /\ widget.uploadedFile.downloadUrl
                 = widget.settled.response.downloadUrl
           /\ widget.error = ""

\* C20 as stated: uploading is true whenever the request of a call of
\* uploadFile is in flight, and false once no call of uploadFile is in
\* progress.
C20_AsStated ==
    /\ (\E c \in Calls : widget.calls[c].pc = "fetching") => widget.uploading
    /\ (\A c \in Calls : widget.calls[c].pc = "none") => ~widget.uploading

====
